---- MODULE Spec2Model ----
(***************************************************************************)
(* CPU-Symphony: the note classifier of cpu_monitor.py (get_current_note   *)
(* over the module-level cpu_history / current_note / last_note) and the   *)
(* delta sampler of backend/cpu_server.py (CPUMonitor.get_cpu_percent).    *)
(*                                                                         *)
(* Numbers.  The classifier's inputs are integers; every comparison of an  *)
(* average with a threshold, sum/len < t, is done as sum < t*len, which is *)
(* exact.  The sampler's percentages are exact rationals <<n, d>> in       *)
(* lowest terms (d > 0); a value returned by round(x, 1) is an integer     *)
(* number of tenths.                                                       *)
(***************************************************************************)
EXTENDS Integers, Sequences, FiniteSets, TLC

VARIABLES
    program,            \* the script that is running: cpu_monitor.py or cpu_server.py
    script,             \* the readings a scripted workload feeds get_current_note
    cpu_history,        \* cpu_monitor.py: deque(maxlen=SMOOTHING_WINDOW)
    current_note,       \* cpu_monitor.py: global current_note
    last_note,          \* cpu_monitor.py: global last_note
    cpu_percent,        \* argument of the latest get_current_note call
    avg_cpu,            \* local avg_cpu of the latest call, as <<sum, len>>
    detected_note,      \* local detected_note of the latest call
    prev_note,          \* current_note as it was before the latest call
    prev2_note,         \* current_note as it was before the call before that
    prev_percent,       \* argument of the call before the latest
    prev_last_note,     \* last_note as it was before the latest call
    prev_history,       \* cpu_history as it was before the latest call
    note_calls,         \* number of get_current_note calls made
    self_last_cpu_times,\* cpu_server.py: CPUMonitor.last_cpu_times
    self_last_time,     \* cpu_server.py: CPUMonitor.last_time
    self_current_cpu,   \* cpu_server.py: CPUMonitor.current_cpu
    self_cpu_history,   \* cpu_server.py: CPUMonitor.cpu_history
    cpu_ret,            \* value returned by the latest get_cpu_percent, in tenths
    raw_cpu_percent,    \* cpu_percent of line 40 in the latest get_cpu_percent,
                        \* or NoValue when that call did not compute one
    cpu_calls,          \* number of get_cpu_percent calls made
    read_cpu_times,     \* current_times of the latest get_cpu_percent call
    read_time,          \* current_time of the latest get_cpu_percent call
    same_streak,        \* consecutive computing calls, up to the latest, that
                        \* yielded one and the same cpu_percent
    ws_pc,              \* cpu_websocket_handler: where each connection's coroutine is
    ws_sent,            \* the reading each connection was sent in the current tick
    tick_calls          \* get_cpu_percent calls made in the current 150 ms tick

noteVars == <<cpu_history, current_note, last_note, cpu_percent, avg_cpu,
              detected_note, prev_note, prev2_note, prev_percent,
              prev_last_note, prev_history, note_calls>>

envVars == <<program, script>>

cpuVars == <<self_last_cpu_times, self_last_time, self_current_cpu,
             self_cpu_history, cpu_ret, raw_cpu_percent, cpu_calls,
             read_cpu_times, read_time, same_streak>>

wsVars == <<ws_pc, ws_sent, tick_calls>>

----------------------------------------------------------------------------
(* Bounds of the model *)

\* psutil.cpu_times() fields read as 0..MaxCounter clock ticks
MaxCounter == 1
\* get_cpu_percent calls that read any counters and any clock
MaxFreeReads == 3
\* get_cpu_percent calls that follow them, one busy tick apart
MaxSteadyReads == 2

\* get_current_note calls whose input is chosen freely from Inputs
MaxFree == 4
\* get_current_note calls that repeat the last input after the free ones
MaxRepeat == 19
\* get_current_note calls of a constant run
RunLength == 25
\* longest first plateau of a scripted workload
MaxLead == 4
\* longest second plateau of a scripted workload
MaxRest == 4
\* streaming connections to /ws/cpu
MaxClients == 2
\* get_cpu_percent calls made by the handlers of the server
MaxServerCalls == 4

(* Program constants *)

SMOOTHING_WINDOW == 20

\* CPUMonitor.buffer_size
buffer_size == 3

\* NOTES, in the insertion order the dict is iterated in
NOTES ==
    << [note |-> "C", min_cpu |-> 0,  max_cpu |-> 15],
       [note |-> "D", min_cpu |-> 15, max_cpu |-> 30],
       [note |-> "E", min_cpu |-> 30, max_cpu |-> 45],
       [note |-> "F", min_cpu |-> 45, max_cpu |-> 60],
       [note |-> "G", min_cpu |-> 60, max_cpu |-> 75],
       [note |-> "A", min_cpu |-> 75, max_cpu |-> 90],
       [note |-> "B", min_cpu |-> 90, max_cpu |-> 100] >>

Labels == {NOTES[i].note : i \in 1..Len(NOTES)}

\* Inputs the free calls draw from: both ends of C, D plateaus, the top of
\* the scale, 100 itself, and values outside [0,100] on either side.
Inputs == {-60, 0, 5, 20, 29, 95, 100, 150}

----------------------------------------------------------------------------
(* Sequence helpers *)

RECURSIVE SumSeq(_)
SumSeq(s) == IF s = <<>> THEN 0 ELSE Head(s) + SumSeq(Tail(s))

\* list(s)[-k:]
LastN(s, k) == IF Len(s) <= k THEN s ELSE SubSeq(s, Len(s) - k + 1, Len(s))

----------------------------------------------------------------------------
(* cpu_monitor.py: get_current_note *)

\* deque(maxlen=SMOOTHING_WINDOW).append(v): a full deque drops its left end
DequeAppend(h, v) == LastN(Append(h, v), SMOOTHING_WINDOW)

\* the rest-trim is missing
RestTrimOff(h) == h

\* the buffer is cut to three samples whatever their mean
RestTrimAlways(h) == LastN(h, 3)

\* lines 32-39: with >= 3 samples whose last three average below 8,
\* popleft until only three are left
RestTrim(h) ==
    IF Len(h) >= 3 /\ SumSeq(LastN(h, 3)) < 8 * 3
    THEN LastN(h, 3)
    ELSE h

\* no smoothing: the average is the latest input alone
AvgCpuLatest(h, v) == <<v, 1>>

\* line 42: avg_cpu as <<sum, len>>; an empty history falls back to the input
AvgCpu(h, v) == IF Len(h) > 0 THEN <<SumSeq(h), Len(h)>> ELSE <<v, 1>>

\* lines 45-49: first NOTES entry with min_cpu <= avg < max_cpu, else cur
RECURSIVE ScanNotes(_, _, _)
ScanNotes(i, avg, cur) ==
    IF i > Len(NOTES) THEN cur
    ELSE IF NOTES[i].min_cpu * avg[2] <= avg[1] /\ avg[1] < NOTES[i].max_cpu * avg[2]
         THEN NOTES[i].note
         ELSE ScanNotes(i + 1, avg, cur)

\* no label when no interval matches, instead of the current one
DetectNoteNoDefault(avg, cur) == ScanNotes(1, avg, "")

DetectNote(avg, cur) == ScanNotes(1, avg, cur)

\* the history is not cleared when the note changes
CommitHistoryKeep(h, v, detected, last) == h

\* the history is reset on every call
CommitHistoryAlways(h, v, detected, last) == <<v>>

\* the history is cleared on a changed note and the sample is not put back
CommitHistoryClear(h, v, detected, last) ==
    IF detected # last THEN <<>> ELSE h

\* lines 52-55: the history after the commit step
CommitHistory(h, v, detected, last) ==
    IF detected # last THEN <<v>> ELSE h

GetCurrentNote(v) ==
    LET h1 == DequeAppend(cpu_history, v)
        h2 == RestTrim(h1)
        avg == AvgCpu(h2, v)
        detected == DetectNote(avg, current_note)
    IN  /\ cpu_history' = CommitHistory(h2, v, detected, last_note)
        /\ last_note' = IF detected # last_note THEN detected ELSE last_note
        /\ current_note' = detected
        /\ cpu_percent' = v
        /\ avg_cpu' = avg
        /\ detected_note' = detected
        /\ prev_note' = current_note
        /\ prev2_note' = prev_note
        /\ prev_percent' = cpu_percent
        /\ prev_last_note' = last_note
        /\ prev_history' = cpu_history
        /\ note_calls' = note_calls + 1

\* lines 19-21
InitNote ==
    /\ cpu_history = <<>>
    /\ current_note = "C"
    /\ last_note = "C"
    /\ cpu_percent = 0
    /\ avg_cpu = <<0, 1>>
    /\ detected_note = "C"
    /\ prev_note = "C"
    /\ prev2_note = "C"
    /\ prev_percent = 0
    /\ prev_last_note = "C"
    /\ prev_history = <<>>
    /\ note_calls = 0

\* update_graph (lines 71-79) feeds one reading per frame: any reading for
\* the first MaxFree frames, then a plateau repeating the last one
Feed ==
    /\ program = "cpu_monitor.py"
    /\ note_calls < MaxFree
    /\ \E v \in Inputs : GetCurrentNote(v)
    /\ UNCHANGED <<envVars, cpuVars, wsVars>>

Plateau ==
    /\ program = "cpu_monitor.py"
    /\ note_calls >= MaxFree
    /\ note_calls < MaxFree + MaxRepeat
    /\ GetCurrentNote(cpu_percent)
    /\ UNCHANGED <<envVars, cpuVars, wsVars>>

----------------------------------------------------------------------------
(* Exact rationals <<n, d>>, d > 0, in lowest terms *)

Abs(n) == IF n < 0 THEN -n ELSE n

RECURSIVE GCD(_, _)
GCD(a, b) == IF b = 0 THEN a ELSE GCD(b, a % b)

Rat(n, d) == LET g == GCD(Abs(n), d) IN <<n \div g, d \div g>>

RatOfInt(n) == <<n, 1>>

RatAdd(x, y) == Rat(x[1] * y[2] + y[1] * x[2], x[2] * y[2])

RatDivInt(x, k) == Rat(x[1], x[2] * k)

RatLeq(x, y) == x[1] * y[2] <= y[1] * x[2]

RatMin(x, y) == IF RatLeq(x, y) THEN x ELSE y

RatMax(x, y) == IF RatLeq(y, x) THEN x ELSE y

RECURSIVE SumRat(_)
SumRat(s) == IF s = <<>> THEN RatOfInt(0) ELSE RatAdd(Head(s), SumRat(Tail(s)))

\* round(x, 1) in tenths: nearest, a tie to the even tenth
Round1(x) ==
    LET n == 10 * x[1]
        q == n \div x[2]
        r == n % x[2]
    IN  IF 2 * r < x[2] THEN q
        ELSE IF 2 * r > x[2] THEN q + 1
        ELSE IF q % 2 = 0 THEN q ELSE q + 1

----------------------------------------------------------------------------
(* backend/cpu_server.py: CPUMonitor *)

\* what psutil.cpu_times() can read
CpuTimes == [user : 0..MaxCounter, system : 0..MaxCounter, idle : 0..MaxCounter]

\* what time.time() can read, relative to the stored timestamp: the clock
\* went back, stood still or advanced (the code looks at the sign only)
ClockSteps == {-1, 0, 1}

\* the guard on the elapsed time is missing
ComputePathNoClock(td, total) == total > 0

\* lines 29 and 38: the two guards around the computation
ComputePath(td, total) == td > 0 /\ total > 0

\* the upper clamp is missing
ClampLowerOnly(x) == RatMax(RatOfInt(0), x)

\* line 41: max(0, min(100, cpu_percent))
Clamp(x) == RatMax(RatOfInt(0), RatMin(RatOfInt(100), x))

\* line 40: ((user_delta + system_delta) / total_delta) * 100
RawPercent(active, total) == Rat(100 * active, total)

\* the clamp is missing
InstantPercentUnclamped(active, total) == RawPercent(active, total)

\* line 40, then line 41
InstantPercent(active, total) == Clamp(RawPercent(active, total))

NoValue == <<>>

\* pop() in place of pop(0): the newest entry is dropped
PushHistoryPopNewest(h, p) ==
    LET h1 == Append(h, p)
    IN  IF Len(h1) > buffer_size THEN SubSeq(h1, 1, buffer_size) ELSE h1

\* the buffer grows without bound
PushHistoryNoPop(h, p) == Append(h, p)

\* lines 44-46: append, then pop(0) when longer than buffer_size
PushHistory(h, p) ==
    LET h1 == Append(h, p)
    IN  IF Len(h1) > buffer_size THEN Tail(h1) ELSE h1

\* the sum is divided by buffer_size
MovingAverageOverSize(h) == RatDivInt(SumRat(h), buffer_size)

\* line 49: sum(self.cpu_history) / len(self.cpu_history)
MovingAverage(h) == RatDivInt(SumRat(h), Len(h))

\* the snapshot keeps the stored value on a call that computes nothing
StoreSnapshotIfComputed(compute, stored, captured) ==
    IF compute THEN captured ELSE stored

\* lines 51-52, outside both conditions: the captured value is stored
StoreSnapshot(compute, stored, captured) == captured

\* __init__, lines 15-20
InitMonitor(times, now) ==
    /\ self_last_cpu_times = times
    /\ self_last_time = now
    /\ self_current_cpu = RatOfInt(0)
    /\ self_cpu_history = <<>>
    /\ cpu_ret = 0
    /\ raw_cpu_percent = NoValue
    /\ cpu_calls = 0
    /\ read_cpu_times = times
    /\ read_time = now
    /\ same_streak = 0

\* get_cpu_percent, lines 22-54, reading current_times and current_time
GetCpuPercent(current_times, current_time) ==
    LET td == current_time - self_last_time
        user_delta == current_times.user - self_last_cpu_times.user
        system_delta == current_times.system - self_last_cpu_times.system
        idle_delta == current_times.idle - self_last_cpu_times.idle
        total == user_delta + system_delta + idle_delta
        compute == ComputePath(td, total)
        h == IF compute
             THEN PushHistory(self_cpu_history,
                              InstantPercent(user_delta + system_delta, total))
             ELSE self_cpu_history
        cur == IF compute THEN MovingAverage(h) ELSE self_current_cpu
        p == InstantPercent(user_delta + system_delta, total)
    IN  /\ self_cpu_history' = h
        /\ self_current_cpu' = cur
        /\ self_last_cpu_times' =
               StoreSnapshot(compute, self_last_cpu_times, current_times)
        /\ self_last_time' = StoreSnapshot(compute, self_last_time, current_time)
        /\ read_cpu_times' = current_times
        /\ read_time' = current_time
        /\ same_streak' =
               IF ~compute THEN 0
               ELSE IF same_streak > 0
                       /\ p = self_cpu_history[Len(self_cpu_history)]
                    THEN same_streak + 1
                    ELSE 1
        /\ cpu_ret' = Round1(cur)
        /\ raw_cpu_percent' = IF compute
                              THEN RawPercent(user_delta + system_delta, total)
                              ELSE NoValue
        /\ cpu_calls' = cpu_calls + 1

\* one request served by cpu_http_handler (line 96) or one round of
\* cpu_websocket_handler's loop (line 69); the first MaxFreeReads calls read
\* any counters and any clock
Sample ==
    /\ program = "cpu_server.py"
    /\ cpu_calls < MaxFreeReads
    /\ \E current_times \in CpuTimes, step \in ClockSteps :
           GetCpuPercent(current_times, self_last_time + step)
    /\ UNCHANGED <<envVars, noteVars, wsVars>>

\* the counters one fully busy tick after the stored ones
BusyTick(times) == [times EXCEPT !.user = @ + 1]

\* the calls after them find the host one busy tick further each time
SteadySample ==
    /\ program = "cpu_server.py"
    /\ cpu_calls >= MaxFreeReads
    /\ cpu_calls < MaxFreeReads + MaxSteadyReads
    /\ GetCpuPercent(BusyTick(self_last_cpu_times), self_last_time + 1)
    /\ UNCHANGED <<envVars, noteVars, wsVars>>

ZeroTimes == [user |-> 0, system |-> 0, idle |-> 0]

\* the counters one fully idle tick after the stored ones
IdleTick(times) == [times EXCEPT !.idle = @ + 1]

\* what psutil.cpu_times() reads on a served host: the counters have not
\* moved since the stored snapshot, or moved by one busy or one idle tick
ServerReads(times) == {times, BusyTick(times), IdleTick(times)}

Clients == 1..MaxClients

\* no connection yet
InitHandlers ==
    /\ ws_pc = [c \in Clients |-> "closed"]
    /\ ws_sent = [c \in Clients |-> <<>>]
    /\ tick_calls = 0

\* cpu_websocket_handler, lines 59-66: a connection is accepted and
\* reaches the loop
WsConnect(c) ==
    /\ program = "cpu_server.py"
    /\ ws_pc[c] = "closed"
    /\ ws_pc' = [ws_pc EXCEPT ![c] = "ready"]
    /\ UNCHANGED <<envVars, noteVars, cpuVars, ws_sent, tick_calls>>

\* lines 67-84: one round of the loop up to its first await; the reading
\* this connection's own get_cpu_percent call returns goes into send_json
WsRound(c) ==
    /\ program = "cpu_server.py"
    /\ ws_pc[c] = "ready"
    /\ cpu_calls < MaxServerCalls
    /\ \E current_times \in ServerReads(self_last_cpu_times) :
           GetCpuPercent(current_times, self_last_time + 1)
    /\ ws_sent' = [ws_sent EXCEPT ![c] = <<cpu_ret'>>]
    /\ ws_pc' = [ws_pc EXCEPT ![c] = "sending"]
    /\ tick_calls' = tick_calls + 1
    /\ UNCHANGED <<envVars, noteVars>>

\* line 84 returns and line 85 starts: await asyncio.sleep(0.15)
WsSleep(c) ==
    /\ program = "cpu_server.py"
    /\ ws_pc[c] = "sending"
    /\ ws_pc' = [ws_pc EXCEPT ![c] = "sleeping"]
    /\ UNCHANGED <<envVars, noteVars, cpuVars, ws_sent, tick_calls>>

\* cpu_http_handler, lines 94-106: a /cpu request makes its own call
HttpRequest ==
    /\ program = "cpu_server.py"
    /\ cpu_calls < MaxServerCalls
    /\ \E current_times \in ServerReads(self_last_cpu_times) :
           GetCpuPercent(current_times, self_last_time + 1)
    /\ tick_calls' = tick_calls + 1
    /\ UNCHANGED <<envVars, noteVars, ws_pc, ws_sent>>

\* 150 ms later: every sleep of line 85 is over and the next tick begins
Tick ==
    /\ program = "cpu_server.py"
    /\ \E c \in Clients : ws_pc[c] = "sleeping"
    /\ \A c \in Clients : ws_pc[c] \in {"closed", "sleeping"}
    /\ ws_pc' = [c \in Clients |->
                    IF ws_pc[c] = "sleeping" THEN "ready" ELSE ws_pc[c]]
    /\ ws_sent' = [c \in Clients |-> <<>>]
    /\ tick_calls' = 0
    /\ UNCHANGED <<envVars, noteVars, cpuVars>>

\* a long constant run: the first frame reads any integer percentage and
\* every later frame reads the same one
StartRun ==
    /\ program = "cpu_monitor.py"
    /\ note_calls = 0
    /\ \E v \in 0..100 : GetCurrentNote(v)
    /\ UNCHANGED <<envVars, cpuVars, wsVars>>

ContinueRun ==
    /\ program = "cpu_monitor.py"
    /\ note_calls > 0
    /\ note_calls < RunLength
    /\ GetCurrentNote(cpu_percent)
    /\ UNCHANGED <<envVars, cpuVars, wsVars>>

\* k copies of v
Rep(v, k) == [i \in 1..k |-> v]

\* scripted workloads: a plateau, a second plateau at a low or a high
\* level, and at most one closing reading
Scripts ==
    { Rep(a, k) \o Rep(b, m) \o Rep(10, n) :
          a \in {20, 50, 80}, k \in 1..MaxLead,
          b \in {5, 95}, m \in 0..MaxRest, n \in 0..1 }

\* update_graph fed the next reading of the script
Play ==
    /\ program = "cpu_monitor.py"
    /\ note_calls < Len(script)
    /\ GetCurrentNote(script[note_calls + 1])
    /\ UNCHANGED <<envVars, cpuVars, wsVars>>

vars == <<envVars, noteVars, cpuVars, wsVars>>

Programs == {"cpu_monitor.py", "cpu_server.py"}

\* either script is started: cpu_monitor.py with its module-level state, or
\* cpu_server.py, whose module-level CPUMonitor() reads any counters; the
\* clock it reads is taken as the origin of time
Init ==
    /\ program \in Programs
    /\ script = <<>>
    /\ InitHandlers
    /\ InitNote
    /\ IF program = "cpu_server.py"
       THEN \E times \in CpuTimes : InitMonitor(times, 0)
       ELSE InitMonitor(ZeroTimes, 0)

Next == Feed \/ Plateau \/ Sample \/ SteadySample

Spec == Init /\ [][Next]_vars

\* cpu_monitor.py fed a constant run
InitRun ==
    /\ program = "cpu_monitor.py"
    /\ script = <<>>
    /\ InitHandlers
    /\ InitNote
    /\ InitMonitor(ZeroTimes, 0)

NextRun == StartRun \/ ContinueRun

SpecRun == InitRun /\ [][NextRun]_vars

\* cpu_server.py serving streaming connections and /cpu requests
InitServer ==
    /\ program = "cpu_server.py"
    /\ script = <<>>
    /\ InitHandlers
    /\ InitNote
    /\ InitMonitor(ZeroTimes, 0)

NextServer ==
    \/ \E c \in Clients : WsConnect(c) \/ WsRound(c) \/ WsSleep(c)
    \/ HttpRequest
    \/ Tick

SpecServer == InitServer /\ [][NextServer]_vars

\* cpu_monitor.py fed a scripted workload
InitScript ==
    /\ program = "cpu_monitor.py"
    /\ script \in Scripts
    /\ InitHandlers
    /\ InitNote
    /\ InitMonitor(ZeroTimes, 0)

NextScript == Play

SpecScript == InitScript /\ [][NextScript]_vars

----------------------------------------------------------------------------
(* Properties of get_current_note *)

\* the interval [min_cpu, max_cpu) of NOTES[i] contains the average avg
Contains(i, avg) ==
    NOTES[i].min_cpu * avg[2] <= avg[1] /\ avg[1] < NOTES[i].max_cpu * avg[2]

\* C1: the looked-up label is that of the first interval, in the order
\* C,D,E,F,G,A,B, that contains the buffer average; when the average is 100
\* or more, so that no interval contains it, the looked-up and returned
\* label is B whatever the label was before.
C1_BandLookup ==
    note_calls > 0 =>
        /\ \A i \in 1..Len(NOTES) :
               (Contains(i, avg_cpu) /\ \A j \in 1..(i - 1) : ~Contains(j, avg_cpu))
                   => detected_note = NOTES[i].note
        /\ avg_cpu[1] >= 100 * avg_cpu[2]
               => detected_note = "B" /\ current_note = "B"

\* the band of an integer percentage: the label whose interval contains it,
\* B's interval being closed at 100
BandOf(v) ==
    IF v = 100 THEN "B"
    ELSE NOTES[CHOOSE i \in 1..Len(NOTES) : Contains(i, <<v, 1>>)].note

\* C2: on a constant run of an integer percentage v in 0..100 the returned
\* label settles (it no longer changes from the second call on) on the one
\* band of v, a mapping that is monotonic in v: 5 gives C, 50 gives F and
\* 100 gives B.
C2_ConstantRunSettles ==
    note_calls >= 2 =>
        /\ current_note = prev_note
        /\ current_note = BandOf(cpu_percent)

\* max(0, min(100, v)) of an integer reading
ClampInput(v) == IF v < 0 THEN 0 ELSE IF v > 100 THEN 100 ELSE v

\* C6: an input below 0 or above 100 is clamped into [0,100] before it is
\* stored or averaged: every value in the note buffer lies in [0,100] and
\* the call looks up the label it would look up for the clamped input.
C6_InputClamped ==
    note_calls > 0 =>
        /\ \A i \in 1..Len(cpu_history) :
               0 <= cpu_history[i] /\ cpu_history[i] <= 100
        /\ detected_note =
               DetectNote(AvgCpu(RestTrim(DequeAppend(prev_history,
                                                     ClampInput(cpu_percent))),
                                 ClampInput(cpu_percent)),
                          prev_note)

\* C8: after any calls with any inputs, current_note and last_note are each
\* one of the seven labels.
C8_NotesAreLabels == current_note \in Labels /\ last_note \in Labels

\* a call whose average lay in no interval, made when the label was not the
\* initial one
C8_Witness ==
    /\ note_calls > 1
    /\ \A i \in 1..Len(NOTES) : ~Contains(i, avg_cpu)
    /\ current_note # "C"

\* C9: a call that looks up a label other than the confirmed one makes it
\* the confirmed label, returns it, and leaves the note buffer holding the
\* call's input alone.
C9_CommitOnChange ==
    (note_calls > 0 /\ detected_note # prev_last_note) =>
        /\ last_note = detected_note
        /\ current_note = detected_note
        /\ cpu_history = <<cpu_percent>>

\* a transition made over a buffer that held two samples or more
C9_Witness ==
    /\ note_calls > 0
    /\ detected_note # prev_last_note
    /\ Len(prev_history) >= 2
    /\ cpu_history = <<cpu_percent>>

\* the latest call was given a sample of C's interval right after a call
\* that moved the returned label from C to D
LowSampleAfterCtoD ==
    /\ note_calls >= 2
    /\ prev2_note = "C"
    /\ prev_note = "D"
    /\ 0 <= cpu_percent /\ cpu_percent < 15

\* C10 as claimed: after a call moved the returned label from C to D, the
\* next call, given a sample of C's interval, still returns D.
C10_NoRevert == LowSampleAfterCtoD => current_note = "D"

\* C10 as amended: that next call averages its sample with the input of the
\* transition call alone; it returns C exactly when their mean lies in C's
\* interval [0,15), and D whenever the mean lies in D's interval [15,30).
C10_RevertIffMeanInC ==
    LowSampleAfterCtoD =>
        /\ current_note = "C" <=>
               (0 <= prev_percent + cpu_percent /\ prev_percent + cpu_percent < 2 * 15)
        /\ (2 * 15 <= prev_percent + cpu_percent /\ prev_percent + cpu_percent < 2 * 30)
               => current_note = "D"

\* a low sample after a move from C to D that did not revert the label
C10_Witness ==
    /\ LowSampleAfterCtoD
    /\ current_note = "D"
    /\ prev_percent + cpu_percent >= 2 * 15

----------------------------------------------------------------------------
(* Properties of CPUMonitor.get_cpu_percent *)

\* a step that is one get_cpu_percent call
IsSample == cpu_calls' = cpu_calls + 1

\* what that call measures against the stored snapshot and timestamp
StepTimeDelta == self_last_time' - self_last_time

StepActiveDelta ==
    (self_last_cpu_times'.user - self_last_cpu_times.user)
        + (self_last_cpu_times'.system - self_last_cpu_times.system)

StepTotalDelta ==
    StepActiveDelta + (self_last_cpu_times'.idle - self_last_cpu_times.idle)

\* 100 * active / total clamped to [0,100] and rounded to tenths, total > 0
ExpectedTenths(active, total) ==
    IF active <= 0 THEN 0
    ELSE IF active >= total THEN 1000
    ELSE Round1(<<100 * active, total>>)

\* 0 <= x <= 100 for a rational x
InRange(x) == 0 <= x[1] /\ x[1] <= 100 * x[2]

C4_ShortCircuit ==
    [][(IsSample /\ (StepTimeDelta <= 0 \/ StepTotalDelta <= 0)) =>
         /\ raw_cpu_percent' = NoValue
         /\ self_cpu_history' = self_cpu_history
         /\ self_current_cpu' = self_current_cpu
         /\ cpu_ret' = cpu_ret]_vars

\* a short-circuit call made after a call that had returned a non-zero value
C4_Witness ==
    /\ cpu_calls >= 2
    /\ raw_cpu_percent = NoValue
    /\ self_cpu_history # <<>>
    /\ cpu_ret > 0

C7_BoundedFifo ==
    /\ [](/\ Len(self_cpu_history) <= buffer_size
          /\ Len(cpu_history) <= SMOOTHING_WINDOW
          /\ note_calls > 0 =>
                 /\ cpu_history = LastN(Append(prev_history, cpu_percent),
                                        Len(cpu_history))
                 /\ (Len(prev_history) = SMOOTHING_WINDOW
                         /\ Len(cpu_history) = SMOOTHING_WINDOW)
                        => cpu_history = Append(Tail(prev_history), cpu_percent))
    /\ [][IsSample =>
            IF raw_cpu_percent' = NoValue
            THEN self_cpu_history' = self_cpu_history
            ELSE /\ self_cpu_history' # <<>>
                 /\ self_cpu_history' =
                        LastN(Append(self_cpu_history,
                                     self_cpu_history'[Len(self_cpu_history')]),
                              buffer_size)]_vars

\* a get_current_note call that appended to a full note buffer, with no
\* rest-trim and no reset, and so evicted its oldest entry
C7_Witness ==
    /\ Len(prev_history) = SMOOTHING_WINDOW
    /\ Len(cpu_history) = SMOOTHING_WINDOW
    /\ avg_cpu[2] = SMOOTHING_WINDOW
    /\ detected_note = prev_last_note

----------------------------------------------------------------------------
(* Properties of get_current_note on scripted workloads *)

\* the rest-trim sequence of the specification's tests
RestScript == <<80, 80, 80, 80, 5, 5, 5, 5, 10>>

Holds80(h) == \E i \in 1..Len(h) : h[i] = 80

\* the latest call's buffer after its append, and the sum of its last three
Appended == LastN(Append(prev_history, cpu_percent), SMOOTHING_WINDOW)

LastThreeSum == SumSeq(LastN(Appended, 3))

----------------------------------------------------------------------------
(* Properties of get_cpu_percent under its handlers *)

\* C12: once three or more consecutive computing calls have each yielded the
\* same instantaneous percentage p, the returned value is p rounded to one
\* decimal, whatever the buffer held before.
C12_SteadyReading ==
    same_streak >= 3 => cpu_ret = Round1(Clamp(raw_cpu_percent))

\* the fourth call ends a streak of three zeros
C12_Witness ==
    /\ same_streak = 3
    /\ cpu_calls = 4
    /\ self_cpu_history = <<RatOfInt(0), RatOfInt(0), RatOfInt(0)>>

TotalTime(times) == times.user + times.system + times.idle

\* C13: every get_cpu_percent call, a short-circuit one included, stores the
\* counters and the timestamp it captured, so the next call's deltas are
\* taken against the call just before it.
C13_SnapshotReplaced ==
    /\ [](cpu_calls > 0 =>
              /\ self_last_cpu_times = read_cpu_times
              /\ self_last_time = read_time)
    /\ [][IsSample =>
              LET td == read_time' - read_time
                  total == TotalTime(read_cpu_times') - TotalTime(read_cpu_times)
                  active == (read_cpu_times'.user - read_cpu_times.user)
                            + (read_cpu_times'.system - read_cpu_times.system)
              IN  IF td > 0 /\ total > 0
                  THEN raw_cpu_percent' = Rat(100 * active, total)
                  ELSE raw_cpu_percent' = NoValue]_vars

\* a short-circuit call stored a clock that had gone back
C13_Witness ==
    /\ cpu_calls = 1
    /\ raw_cpu_percent = NoValue
    /\ self_last_time < 0

\* C14: one shared reading per tick: get_cpu_percent is called once per
\* 150 ms tick however many subscribers there are, and the subscribers of a
\* tick all receive the same reading.
C14_OneSharedReading ==
    /\ tick_calls <= 1
    /\ \A c, d \in Clients :
           (ws_sent[c] # <<>> /\ ws_sent[d] # <<>>) => ws_sent[c] = ws_sent[d]

\* C18: at every point where another handler can run, the sampler is
\* consistent: at most 3 buffered entries, the cached value is the mean of
\* the buffer (0.0 while it is empty), and the stored counters and
\* timestamp are the ones captured by one and the same call.
C18_ConsistentBetweenHandlers ==
    /\ Len(self_cpu_history) <= 3
    /\ self_current_cpu =
           IF self_cpu_history = <<>>
           THEN RatOfInt(0)
           ELSE RatDivInt(SumRat(self_cpu_history), Len(self_cpu_history))
    /\ self_last_cpu_times = read_cpu_times
    /\ self_last_time = read_time

\* two connections and a /cpu request have called within one tick
C18_Witness ==
    /\ \A c \in Clients : ws_pc[c] \in {"sending", "sleeping"}
    /\ tick_calls > MaxClients
    /\ Len(self_cpu_history) = 3

----------------------------------------------------------------------------
(* Properties of the steps of get_current_note *)

TwoPlateaus ==
    /\ Len(script) > MaxLead
    /\ script = Rep(script[1], MaxLead)
                    \o Rep(script[Len(script)], Len(script) - MaxLead)
    /\ BandOf(script[1]) # BandOf(script[Len(script)])

\* C16: when the input goes from a sustained constant a, on whose band the
\* label has settled, straight to a sustained constant b of another band,
\* every label returned from then on is band(a) or band(b), never a third
\* band.
C16_CrispTransition ==
    (TwoPlateaus /\ note_calls > MaxLead) =>
        current_note \in {BandOf(script[1]), BandOf(script[Len(script)])}

\* C17: a call whose buffer average, after the append and the rest-trim,
\* lies in [0,100) returns the band whose interval contains that average;
\* when that band is the one confirmed before, the buffer is kept as it is.
C17_AverageBand ==
    (note_calls > 0 /\ 0 <= avg_cpu[1] /\ avg_cpu[1] < 100 * avg_cpu[2]) =>
        \E i \in 1..Len(NOTES) :
            /\ Contains(i, avg_cpu)
            /\ \A j \in 1..Len(NOTES) : Contains(j, avg_cpu) => j = i
            /\ current_note = NOTES[i].note
            /\ NOTES[i].note = prev_last_note =>
                   cpu_history = LastN(Appended, avg_cpu[2])

\* a call confirmed the band it was in and kept a buffer of several samples
C17_Witness ==
    /\ note_calls > 0
    /\ 0 <= avg_cpu[1] /\ avg_cpu[1] < 100 * avg_cpu[2]
    /\ current_note = prev_last_note
    /\ current_note = "D"
    /\ Len(cpu_history) >= 2

\* C19: after every call current_note equals last_note and the note buffer
\* is not empty, so every mean is taken over at least one buffered sample
\* and the fallback to the input alone is never used.
C19_NoteConfirmed ==
    /\ current_note = last_note
    /\ note_calls > 0 =>
           /\ cpu_history # <<>>
           /\ avg_cpu[2] >= 1
           /\ avg_cpu[2] <= Len(Appended)
           /\ avg_cpu = <<SumSeq(LastN(Appended, avg_cpu[2])), avg_cpu[2]>>

\* a call changed the note and left the buffer with its one sample
C19_Witness ==
    /\ note_calls > 0
    /\ current_note # prev_note
    /\ current_note = last_note
    /\ cpu_history = <<cpu_percent>>

====
